---- MODULE Spec2Model ----
(***************************************************************************)
(* State-machine model of web/src/views/TicketsView.vue (PageTicket):      *)
(* the ticket list screen with its loader (getTickets), its create / edit  *)
(* panels, the delete confirmation flow and the table filter (filterData). *)
(*                                                                         *)
(* Every event-loop task of the component (a handler run, a promise        *)
(* callback) is one atomic action: JavaScript runs each to completion.     *)
(***************************************************************************)
EXTENDS Integers, Sequences, FiniteSets, TLC

VARIABLES
    tickets,                 \* tickets.value: the row list shown by the table
    ticket,                  \* ticket.value: the record bound to the edit panel
    showaddTicketDialog,     \* v-model of the create panel
    showUpdateTicketDialog,  \* v-model of the edit panel
    loads,                   \* one entry per getTickets() call: request state + its notification
    res,                     \* res.data.data of the most recent resolved list() call
    owner,                   \* index in loads of the call whose callback last wrote tickets
    confirm,                 \* the open $q.dialog confirmations, each held as its props.row
    deleting,                \* ids of ticketsService.delete calls in flight
    panelEvent,              \* the panel event the last task handled: "updated", or "none"
    notified,                \* the $q.notify calls the last task made, by kind of notification
    filterQuery,             \* filterQuery.value: the text of the search box
    rows,                    \* filterData: the array passed as rows
    filtered,                \* filterData: the array it returned
    filterPc                 \* filterData: "idle" before the call, "done" after it

vars == <<tickets, ticket, showaddTicketDialog, showUpdateTicketDialog, loads, res,
          owner, confirm, deleting, panelEvent, notified, filterQuery, rows, filtered,
          filterPc>>

screenVars == <<tickets, ticket, showaddTicketDialog, showUpdateTicketDialog, loads, res,
                owner, confirm, deleting, panelEvent, notified>>

filterVars == <<filterQuery, rows, filtered, filterPc>>

----------------------------------------------------------------------------
(* Bounds of the model *)

MaxRows == 3      \* rows the list may reach through create-panel appends
MaxLoads == 2     \* getTickets() calls issued in one behaviour
MaxFilterRows == 2 \* rows handed to filterData
MaxTermLen == 2   \* length of the query handed to filterData

----------------------------------------------------------------------------
(* Values *)

\* what JavaScript yields for a missing property or a missing argument
Undefined == "undefined"

\* the format string passed to date.formatDate everywhere in the file
DateFormat == "YYYY-MM-DDTHH:mm:ssZ"

\* quasar date.formatDate(val, format): no value gives no text; otherwise the
\* timestamp rendered in the given format (a text, not the timestamp itself)
formatDate(val, format) ==
    IF val = Undefined THEN Undefined ELSE format \o "@" \o val

\* obj[name] / obj.name in JavaScript: a missing property reads undefined
Prop(obj, name) == IF name \in DOMAIN obj THEN obj[name] ELSE Undefined

\* backend records (RawTicket) the remote service may return or the create
\* panel may hand over; ids are unrelated to positions
RawTickets ==
    { [id |-> "t9", subject |-> "Login issue", description_text |-> "Cannot log in",
       status |-> "open", created_at |-> "2023-01-01T00:00:00Z",
       updated_at |-> "2023-01-02T00:00:00Z", comments |-> "c9"],
      [id |-> "t4", subject |-> "Slow query", description_text |-> "Takes minutes",
       status |-> "closed", created_at |-> "2023-02-01T00:00:00Z",
       updated_at |-> "2023-02-02T00:00:00Z", comments |-> "c4"] }

RECURSIVE SeqsUpTo(_, _)
SeqsUpTo(S, n) ==
    IF n = 0 THEN {<<>>}
    ELSE LET shorter == SeqsUpTo(S, n - 1)
         IN  shorter \cup {Append(s, x) : s \in {t \in shorter : Len(t) = n - 1}, x \in S}

\* the possible values of res.data.data: any records in any order
Responses == SeqsUpTo(RawTickets, Cardinality(RawTickets))

----------------------------------------------------------------------------
(* getTickets: the mapping of a response to the row list *)

\* the object literal built for one record, with the running counter's value
mapRow(data, counter) ==
    [sequenceNumber |-> counter,
     id |-> data.id,
     subject |-> data.subject,
     description |-> data.description_text,
     status |-> data.status,
     created |-> formatDate(data.created_at, DateFormat),
     updated |-> formatDate(data.updated_at, DateFormat),
     comments |-> data.comments]

\* getTicketsRows with the counter started at 0
getTicketsRowsFromZero(data) == [i \in 1..Len(data) |-> mapRow(data[i], 0 + (i - 1))]

\* var counter = 1; res.data.data.map(data => ({"#": counter++, ...}))
getTicketsRows(data) == [i \in 1..Len(data) |-> mapRow(data[i], 1 + (i - 1))]

\* the state a getTickets() call adds: the notification it opens, the request it sends
newLoad == [st |-> "pending", notif |-> "open"]

----------------------------------------------------------------------------
(* The screen *)

Idle == ~showaddTicketDialog /\ ~showUpdateTicketDialog /\ confirm = <<>>

\* const ticket = ref({}): every property of the empty object reads undefined
EmptyTicket ==
    [id |-> Undefined, subject |-> Undefined, description |-> Undefined,
     status |-> Undefined, created |-> Undefined, updated |-> Undefined,
     comments |-> Undefined]

\* setup(): the refs as constructed, and the getTickets() call setup makes
ScreenInit ==
    /\ tickets = <<>>
    /\ ticket = EmptyTicket
    /\ showaddTicketDialog = FALSE
    /\ showUpdateTicketDialog = FALSE
    /\ loads = <<newLoad>>
    /\ res = <<>>
    /\ owner = 0
    /\ confirm = <<>>
    /\ deleting = <<>>
    /\ panelEvent = "none"
    /\ notified = <<"spinner">>

\* getTicketsThen made to drop the response of any call but the one issued last
getTicketsThenLatestOnly(r, data) ==
    /\ r \in 1..Len(loads)
    /\ loads[r].st = "pending"
    /\ IF r = Len(loads)
       THEN res' = data /\ tickets' = getTicketsRows(data) /\ owner' = r
       ELSE UNCHANGED <<res, tickets, owner>>
    /\ loads' = [loads EXCEPT ![r] = [st |-> "done", notif |-> "dismissed"]]
    /\ panelEvent' = "none"
    /\ notified' = <<>>
    /\ UNCHANGED <<ticket, showaddTicketDialog, showUpdateTicketDialog, confirm,
                   deleting>>

\* the .then callback of ticketsService.list, run when call r resolves with data
getTicketsThen(r, data) ==
    /\ r \in 1..Len(loads)
    /\ loads[r].st = "pending"
    /\ res' = data
    /\ tickets' = getTicketsRows(data)
    /\ owner' = r
    /\ loads' = [loads EXCEPT ![r] = [st |-> "done", notif |-> "dismissed"]]
    /\ panelEvent' = "none"
    /\ notified' = <<>>
    /\ UNCHANGED <<ticket, showaddTicketDialog, showUpdateTicketDialog, confirm,
                   deleting>>

\* getTicketsRejected with the notification dismissed on failure too
getTicketsRejectedDismisses(r) ==
    /\ r \in 1..Len(loads)
    /\ loads[r].st = "pending"
    /\ loads' = [loads EXCEPT ![r] = [st |-> "failed", notif |-> "dismissed"]]
    /\ panelEvent' = "none"
    /\ notified' = <<>>
    /\ UNCHANGED <<tickets, ticket, showaddTicketDialog, showUpdateTicketDialog, res,
                   owner, confirm, deleting>>

\* ticketsService.list rejects: no rejection handler is attached
getTicketsRejected(r) ==
    /\ r \in 1..Len(loads)
    /\ loads[r].st = "pending"
    /\ loads' = [loads EXCEPT ![r] = [st |-> "failed", notif |-> loads[r].notif]]
    /\ panelEvent' = "none"
    /\ notified' = <<>>
    /\ UNCHANGED <<tickets, ticket, showaddTicketDialog, showUpdateTicketDialog, res,
                   owner, confirm, deleting>>

\* click on the add button
addTicket ==
    /\ Idle
    /\ showaddTicketDialog' = TRUE
    /\ panelEvent' = "none"
    /\ notified' = <<>>
    /\ UNCHANGED <<tickets, ticket, showUpdateTicketDialog, loads, res, owner, confirm,
                   deleting>>

\* the object editTicket(event, props) stores in ticket.value
editTicketRecord(props) ==
    [id |-> Prop(props, "id"),
     subject |-> Prop(props, "subject"),
     description |-> Prop(props, "description"),
     status |-> Prop(props, "status"),
     created |-> formatDate(Prop(props, "createdAt"), DateFormat),
     updated |-> formatDate(Prop(props, "updatedAt"), DateFormat),
     comments |-> Prop(props, "comments")]

\* @row-click="editTicket": the table calls it with (event, row) for row i
editTicket(i) ==
    /\ Idle
    /\ i \in 1..Len(tickets)
    /\ ticket' = editTicketRecord(tickets[i])
    /\ showUpdateTicketDialog' = TRUE
    /\ panelEvent' = "none"
    /\ notified' = <<>>
    /\ UNCHANGED <<tickets, showaddTicketDialog, loads, res, owner, confirm, deleting>>

\* deleteTicket(props) with props.row = row i: opens the confirmation
deleteTicket(i) ==
    /\ Idle
    /\ i \in 1..Len(tickets)
    /\ confirm' = <<tickets[i]>>
    /\ panelEvent' = "none"
    /\ notified' = <<>>
    /\ UNCHANGED <<tickets, ticket, showaddTicketDialog, showUpdateTicketDialog, loads,
                   res, owner, deleting>>

\* deleteTicketOk made to call getTickets() without waiting for the delete
deleteTicketOkReloadsAtOnce ==
    /\ confirm # <<>>
    /\ Len(loads) + Len(deleting) < MaxLoads
    /\ deleting' = Append(deleting, confirm[1].id)
    /\ confirm' = <<>>
    /\ loads' = Append(loads, newLoad)
    /\ panelEvent' = "none"
    /\ notified' = <<"spinner">>
    /\ UNCHANGED <<tickets, ticket, showaddTicketDialog, showUpdateTicketDialog, res,
                   owner>>

\* the confirmation's onOk continuation: ticketsService.delete(props.row.id)
deleteTicketOk ==
    /\ confirm # <<>>
    /\ Len(loads) + Len(deleting) < MaxLoads
    /\ deleting' = Append(deleting, confirm[1].id)
    /\ confirm' = <<>>
    /\ panelEvent' = "none"
    /\ notified' = <<>>
    /\ UNCHANGED <<tickets, ticket, showaddTicketDialog, showUpdateTicketDialog, loads,
                   res, owner>>

\* the confirmation is cancelled (cancel: true): no continuation is registered
deleteTicketCancel ==
    /\ confirm # <<>>
    /\ confirm' = <<>>
    /\ panelEvent' = "none"
    /\ notified' = <<>>
    /\ UNCHANGED <<tickets, ticket, showaddTicketDialog, showUpdateTicketDialog, loads,
                   res, owner, deleting>>

RemoveAt(s, k) == [j \in 1..(Len(s) - 1) |-> IF j < k THEN s[j] ELSE s[j + 1]]

\* the .then callback of ticketsService.delete: getTickets()
deleteTicketThen(k) ==
    /\ k \in 1..Len(deleting)
    /\ Len(loads) < MaxLoads
    /\ deleting' = RemoveAt(deleting, k)
    /\ loads' = Append(loads, newLoad)
    /\ panelEvent' = "none"
    /\ notified' = <<"spinner">>
    /\ UNCHANGED <<tickets, ticket, showaddTicketDialog, showUpdateTicketDialog, res,
                   owner, confirm>>

\* ticketsService.delete rejects: no rejection handler is attached
deleteTicketRejected(k) ==
    /\ k \in 1..Len(deleting)
    /\ deleting' = RemoveAt(deleting, k)
    /\ panelEvent' = "none"
    /\ notified' = <<>>
    /\ UNCHANGED <<tickets, ticket, showaddTicketDialog, showUpdateTicketDialog, loads,
                   res, owner, confirm>>

\* ticketUpdated without its getTickets() call
ticketUpdatedNoReload ==
    /\ showUpdateTicketDialog
    /\ Len(loads) < MaxLoads
    /\ showUpdateTicketDialog' = FALSE
    /\ panelEvent' = "updated"
    /\ notified' = <<>>
    /\ UNCHANGED <<tickets, ticket, showaddTicketDialog, loads, res, owner, confirm,
                   deleting>>

\* ticketUpdated made to empty the row list while the reload is in flight
ticketUpdatedDropsRows ==
    /\ showUpdateTicketDialog
    /\ Len(loads) < MaxLoads
    /\ showUpdateTicketDialog' = FALSE
    /\ tickets' = <<>>
    /\ loads' = Append(loads, newLoad)
    /\ panelEvent' = "updated"
    /\ notified' = <<"spinner">>
    /\ UNCHANGED <<ticket, showaddTicketDialog, res, owner, confirm, deleting>>

\* @updated of the edit panel
ticketUpdated ==
    /\ showUpdateTicketDialog
    /\ Len(loads) < MaxLoads
    /\ showUpdateTicketDialog' = FALSE
    /\ loads' = Append(loads, newLoad)
    /\ panelEvent' = "updated"
    /\ notified' = <<"spinner">>
    /\ UNCHANGED <<tickets, ticket, showaddTicketDialog, res, owner, confirm, deleting>>

\* updateTicketListRow numbered with the length before the append
updateTicketListRowStale(data) ==
    [sequenceNumber |-> Len(tickets),
     id |-> data.id,
     subject |-> data.subject,
     description |-> data.description_text,
     status |-> data.status,
     created |-> formatDate(data.created_at, DateFormat),
     updated |-> formatDate(data.updated_at, DateFormat),
     comments |-> data.comments]

\* the row updateTicketList builds from the record the create panel hands over
updateTicketListRow(data) ==
    [sequenceNumber |-> Len(tickets) + 1,
     id |-> data.id,
     subject |-> data.subject,
     description |-> data.description_text,
     status |-> data.status,
     created |-> formatDate(data.created_at, DateFormat),
     updated |-> formatDate(data.updated_at, DateFormat),
     comments |-> data.comments]

\* updateTicketList with the new row put first
updateTicketListPrepend(data) ==
    /\ showaddTicketDialog
    /\ Len(tickets) < MaxRows
    /\ showaddTicketDialog' = FALSE
    /\ tickets' = <<updateTicketListRow(data)>> \o tickets
    /\ panelEvent' = "updated"
    /\ notified' = <<"positive">>
    /\ UNCHANGED <<ticket, showUpdateTicketDialog, loads, res, owner, confirm, deleting>>

\* @updated of the create panel, carrying {data}
updateTicketList(data) ==
    /\ showaddTicketDialog
    /\ Len(tickets) < MaxRows
    /\ showaddTicketDialog' = FALSE
    /\ tickets' = tickets \o <<updateTicketListRow(data)>>
    /\ panelEvent' = "updated"
    /\ notified' = <<"positive">>
    /\ UNCHANGED <<ticket, showUpdateTicketDialog, loads, res, owner, confirm, deleting>>

\* q-dialog v-model="showaddTicketDialog": the panel is dismissed
hideAddTicketDialog ==
    /\ showaddTicketDialog
    /\ showaddTicketDialog' = FALSE
    /\ panelEvent' = "none"
    /\ notified' = <<>>
    /\ UNCHANGED <<tickets, ticket, showUpdateTicketDialog, loads, res, owner, confirm,
                   deleting>>

\* q-dialog v-model="showUpdateTicketDialog": the panel is dismissed
hideUpdateTicketDialog ==
    /\ showUpdateTicketDialog
    /\ showUpdateTicketDialog' = FALSE
    /\ panelEvent' = "none"
    /\ notified' = <<>>
    /\ UNCHANGED <<tickets, ticket, showaddTicketDialog, loads, res, owner, confirm,
                   deleting>>

----------------------------------------------------------------------------
(* filterData: texts are sequences of characters *)

Chars == {"a", "A", "b"}

\* String.prototype.toLowerCase on one character of Chars
toLowerCaseChar(c) == IF c = "A" THEN "a" ELSE c

\* String.prototype.toLowerCase
toLowerCase(s) == [i \in 1..Len(s) |-> toLowerCaseChar(s[i])]

\* String.prototype.includes: t occurs in s at some offset
includes(s, t) == \E k \in 0..(Len(s) - Len(t)) : SubSeq(s, k + 1, k + Len(t)) = t

\* rowMatches requiring the query in both fields
rowMatchesBoth(row, terms) ==
    /\ includes(toLowerCase(row["subject"]), terms)
    /\ includes(toLowerCase(row["description"]), terms)

\* the condition of the if in the loop body, terms being already lowercased
rowMatches(row, terms) ==
    \/ includes(toLowerCase(row["subject"]), terms)
    \/ includes(toLowerCase(row["description"]), terms)

\* for (let i = 0; i < rows.length; i++) { if (...) filtered.push(rows[i]) }
\* from index i (1-based here) with the array built so far
RECURSIVE filterDataLoop(_, _, _, _)
filterDataLoop(rws, terms, i, acc) ==
    IF i > Len(rws) THEN acc
    ELSE filterDataLoop(rws, terms, i + 1,
                        IF rowMatches(rws[i], terms) THEN Append(acc, rws[i]) ELSE acc)

\* filterData(rows, terms): terms = terms.toLowerCase(), then the loop
filterData(rws, terms) == filterDataLoop(rws, toLowerCase(terms), 1, <<>>)

\* the subject and description texts of the rows handed to filterData
FieldTexts == {<<>>, <<"A">>, <<"a", "b">>, <<"b", "A">>}

FilterRows == [subject : FieldTexts, description : FieldTexts]

\* the table calls filterData(rows, filterQuery) and shows what it returns
callFilterData ==
    /\ filterPc = "idle"
    /\ filtered' = filterData(rows, filterQuery)
    /\ filterPc' = "done"
    /\ UNCHANGED <<rows, filterQuery>>

Init ==
    /\ ScreenInit
    /\ filterQuery = <<>>
    /\ rows = <<>>
    /\ filtered = <<>>
    /\ filterPc = "idle"

Next ==
    \/ (\E r \in 1..MaxLoads, data \in Responses : getTicketsThen(r, data)) /\ UNCHANGED filterVars
    \/ (\E r \in 1..MaxLoads : getTicketsRejected(r)) /\ UNCHANGED filterVars
    \/ addTicket /\ UNCHANGED filterVars
    \/ (\E i \in 1..MaxRows : editTicket(i)) /\ UNCHANGED filterVars
    \/ (\E i \in 1..MaxRows : deleteTicket(i)) /\ UNCHANGED filterVars
    \/ deleteTicketOk /\ UNCHANGED filterVars
    \/ deleteTicketCancel /\ UNCHANGED filterVars
    \/ (\E k \in 1..MaxLoads : deleteTicketThen(k)) /\ UNCHANGED filterVars
    \/ (\E k \in 1..MaxLoads : deleteTicketRejected(k)) /\ UNCHANGED filterVars
    \/ ticketUpdated /\ UNCHANGED filterVars
    \/ (\E data \in RawTickets : updateTicketList(data)) /\ UNCHANGED filterVars
    \/ hideAddTicketDialog /\ UNCHANGED filterVars
    \/ hideUpdateTicketDialog /\ UNCHANGED filterVars

Spec == Init /\ [][Next]_vars

\* filterData on its own: any rows and any query, then the call
FilterInit ==
    /\ ScreenInit
    /\ filterQuery \in SeqsUpTo(Chars, MaxTermLen)
    /\ rows \in SeqsUpTo(FilterRows, MaxFilterRows)
    /\ filtered = <<>>
    /\ filterPc = "idle"

FilterNext == callFilterData /\ UNCHANGED screenVars

FilterSpec == FilterInit /\ [][FilterNext]_vars

----------------------------------------------------------------------------
(* Properties *)

\* call r of getTickets() completes successfully in this step
Completes(r) == loads[r].st = "pending" /\ loads'[r].st = "done"

\* call r of getTickets() fails in this step
Fails(r) == loads[r].st = "pending" /\ loads'[r].st = "failed"

\* row carries the fields of the backend record
RowOf(row, data) ==
    /\ row.id = data.id
    /\ row.subject = data.subject
    /\ row.description = data.description_text
    /\ row.status = data.status
    /\ row.comments = data.comments

\* C1: when a getTickets() call completes with the N records of res, whatever
\* the list held before, the list afterwards has exactly N rows, row i carries
\* record i and has sequenceNumber i.
LoadReplacesRows ==
    [][\A r \in 1..Len(loads) :
          Completes(r) =>
              /\ Len(tickets') = Len(res')
              /\ \A i \in 1..Len(res') :
                     /\ tickets'[i].sequenceNumber = i
                     /\ RowOf(tickets'[i], res'[i])]_vars

\* C1 witness: a second load has replaced a list by two rows whose ids are
\* unrelated to their positions
LoadReplacesRowsWitness ==
    /\ owner = 2
    /\ loads[1].st = "done"
    /\ Len(res) = 2
    /\ Len(tickets) = 2
    /\ tickets[1].id = "t4" /\ tickets[1].sequenceNumber = 1
    /\ tickets[2].id = "t9" /\ tickets[2].sequenceNumber = 2

\* C2: when the create panel emits "updated" while the list has K rows, the
\* list afterwards has K+1 rows, the first K are the previous rows unchanged,
\* the last has sequenceNumber K+1, the create panel is closed and a success
\* notification is emitted.
CreateAppendsRow ==
    [][(showaddTicketDialog /\ panelEvent' = "updated") =>
          /\ Len(tickets') = Len(tickets) + 1
          /\ SubSeq(tickets', 1, Len(tickets)) = tickets
          /\ tickets'[Len(tickets')].sequenceNumber = Len(tickets) + 1
          /\ showaddTicketDialog' = FALSE
          /\ notified' = <<"positive">>]_vars

\* C2 witness: the create panel has just appended a third row to two loaded rows
CreateAppendsRowWitness ==
    /\ panelEvent = "updated"
    /\ notified = <<"positive">>
    /\ ~showaddTicketDialog
    /\ Len(res) = 2
    /\ Len(tickets) = 3
    /\ tickets[3].sequenceNumber = 3

\* C3: a remote delete is sent only by accepting an open confirmation and
\* with the id of the row it was opened for; a reload that follows a delete
\* is issued only in the step in which a remote delete completes; opening,
\* cancelling or accepting the confirmation and completing the delete leave
\* the row list as it is, and opening or cancelling sends no remote delete.
DeleteFlow ==
    [][/\ (Len(deleting') > Len(deleting)) =>
            /\ confirm # <<>>
            /\ deleting' = Append(deleting, confirm[1].id)
            /\ confirm' = <<>>
            /\ tickets' = tickets
            /\ loads' = loads
       /\ (confirm = <<>> /\ confirm' # <<>>) =>
            /\ \E i \in 1..Len(tickets) : confirm' = <<tickets[i]>>
            /\ tickets' = tickets
            /\ deleting' = deleting
            /\ loads' = loads
       /\ (confirm # <<>> /\ confirm' = <<>> /\ Len(deleting') <= Len(deleting)) =>
            /\ tickets' = tickets
            /\ deleting' = deleting
            /\ loads' = loads
       /\ (Len(deleting') < Len(deleting)) => tickets' = tickets
       /\ (Len(loads') > Len(loads) /\ panelEvent' # "updated") =>
            Len(deleting') = Len(deleting) - 1]_vars

\* C3 witness: an accepted delete has completed and its reload is in flight
DeleteFlowWitness ==
    /\ Len(loads) = 2
    /\ loads[2].st = "pending"
    /\ panelEvent = "none"
    /\ notified = <<"spinner">>
    /\ deleting = <<>>
    /\ confirm = <<>>
    /\ Len(tickets) > 0

\* C4: when the edit panel emits "updated", the edit panel is closed and one
\* new getTickets() call is issued; the completion of a call replaces the row
\* list by the rows of what the call returned.
EditUpdatedReloads ==
    [][/\ (showUpdateTicketDialog /\ panelEvent' = "updated") =>
            /\ showUpdateTicketDialog' = FALSE
            /\ showaddTicketDialog' = FALSE
            /\ Len(loads') = Len(loads) + 1
            /\ SubSeq(loads', 1, Len(loads)) = loads
            /\ loads'[Len(loads')].st = "pending"
       /\ \A r \in 1..Len(loads) :
            Completes(r) =>
                /\ Len(tickets') = Len(res')
                /\ \A i \in 1..Len(res') : tickets'[i].id = res'[i].id]_vars

\* C4 witness: the edit panel has emitted "updated" after the first load; the
\* panel is closed and the reload is in flight
EditUpdatedReloadsWitness ==
    /\ panelEvent = "updated"
    /\ ~showUpdateTicketDialog
    /\ ~showaddTicketDialog
    /\ Len(loads) = 2
    /\ loads[1].st = "done"
    /\ loads[2] = newLoad

\* C5 as stated: when the edit panel emits "updated", no reload is triggered
\* and the row list is left unchanged; only the visibility flag is reset.
EditUpdatedNoReload ==
    [][(showUpdateTicketDialog /\ panelEvent' = "updated") =>
          /\ showUpdateTicketDialog' = FALSE
          /\ tickets' = tickets
          /\ loads' = loads]_vars

\* C5 amended: when the edit dialog closes, the closing task leaves the row
\* list and the edit form as they are and resets the visibility flag; after
\* an edit ("updated") it also issues one getTickets() call, and only a
\* dismissal issues none.
EditCloseEffects ==
    [][(showUpdateTicketDialog /\ ~showUpdateTicketDialog') =>
          /\ tickets' = tickets
          /\ ticket' = ticket
          /\ IF panelEvent' = "updated"
             THEN Len(loads') = Len(loads) + 1 /\ notified' = <<"spinner">>
             ELSE loads' = loads /\ notified' = <<>>]_vars

\* C5 witness: the edit panel has emitted "updated" over a loaded list, which
\* is still in place while the reload is pending
EditCloseEffectsWitness ==
    /\ panelEvent = "updated"
    /\ notified = <<"spinner">>
    /\ ~showUpdateTicketDialog
    /\ loads[Len(loads)].st = "pending"
    /\ Len(tickets) > 0
    /\ \E i \in 1..Len(tickets) : ticket.id = tickets[i].id

\* case-insensitive equality of two characters
SameLetter(c, d) == c = d \/ {c, d} = {"a", "A"}

\* q occurs in s at some offset when case is ignored
ContainsIgnoringCase(s, q) ==
    \E k \in 0..(Len(s) - Len(q)) : \A j \in 1..Len(q) : SameLetter(s[k + j], q[j])

MatchesQuery(row, q) ==
    ContainsIgnoringCase(row.subject, q) \/ ContainsIgnoringCase(row.description, q)

\* C6: filterData(R, q) is exactly the rows of R whose subject or description
\* contains q when case is ignored, in their original order; the empty query
\* returns R; R itself is not changed.
FilterDataExact ==
    filterPc = "done" =>
        /\ filtered = SelectSeq(rows, LAMBDA row : MatchesQuery(row, filterQuery))
        /\ (filterQuery = <<>> => filtered = rows)

\* C6 witness: of two rows, the first matches in neither field and the second
\* matches, in its description only, a query that differs from it in case
FilterDataExactWitness ==
    /\ filterPc = "done"
    /\ filterQuery = <<"A", "b">>
    /\ Len(rows) = 2
    /\ rows[1] = [subject |-> <<"A">>, description |-> <<"b", "A">>]
    /\ rows[2] = [subject |-> <<>>, description |-> <<"a", "b">>]
    /\ filtered = <<rows[2]>>

\* C7: every completion of a getTickets() call overwrites the row list and
\* makes that call the list's owner, whether or not a call issued later has
\* already completed; the list is always owned by a completed call.
LastToCompleteWins ==
    /\ [][\A r \in 1..Len(loads) :
             Completes(r) => (owner' = r /\ Len(tickets') = Len(res'))]_vars
    /\ [](owner # 0 => (owner \in 1..Len(loads) /\ loads[owner].st = "done"))

\* C7 witness: both calls have completed and the list holds the result of the
\* one issued first
LastToCompleteWinsWitness ==
    /\ Len(loads) = 2
    /\ loads[1].st = "done"
    /\ loads[2].st = "done"
    /\ owner = 1
    /\ tickets = getTicketsRows(res)
    /\ Len(tickets) > 0

\* C8: every getTickets() call opens one loading notification; it is
\* dismissed exactly when the call has completed successfully; a failing call
\* leaves the row list as it was, issues no further call, and stays failed
\* with its notification open.
LoadNotification ==
    /\ [](\A r \in 1..Len(loads) :
             /\ loads[r].notif \in {"open", "dismissed"}
             /\ loads[r].notif = "dismissed" <=> loads[r].st = "done")
    /\ [][/\ \A r \in 1..Len(loads) :
               /\ Fails(r) => (tickets' = tickets /\ Len(loads') = Len(loads))
               /\ loads[r].st = "failed" => loads'[r] = loads[r]
           /\ Len(loads') > Len(loads) =>
               /\ Len(loads') = Len(loads) + 1
               /\ loads'[Len(loads')].notif = "open"
               /\ notified' = <<"spinner">>]_vars

\* C8 witness: a reload has failed over a loaded list; its notification is open
LoadNotificationWitness ==
    /\ Len(loads) = 2
    /\ loads[1].st = "done"
    /\ loads[2].st = "failed"
    /\ loads[2].notif = "open"
    /\ owner = 1
    /\ Len(tickets) > 0

\* C9 as stated: a row click opens the edit panel from Idle with the edit
\* form holding the clicked row's id, subject, description, status, comments,
\* created and updated values.
RowClickPopulatesForm ==
    [][(~showUpdateTicketDialog /\ showUpdateTicketDialog') =>
          /\ Idle
          /\ \E i \in 1..Len(tickets) :
                /\ ticket'.id = tickets[i].id
                /\ ticket'.subject = tickets[i].subject
                /\ ticket'.description = tickets[i].description
                /\ ticket'.status = tickets[i].status
                /\ ticket'.comments = tickets[i].comments
                /\ ticket'.created = tickets[i].created
                /\ ticket'.updated = tickets[i].updated]_vars

\* C10: in every reachable state row i of the list has sequenceNumber i.
SequenceNumbersContiguous ==
    \A i \in 1..Len(tickets) : tickets[i].sequenceNumber = i

\* C10 witness: a reloaded list of two rows with a row appended by the create panel
SequenceNumbersContiguousWitness ==
    /\ owner = 2
    /\ Len(res) = 2
    /\ Len(tickets) = 3
    /\ tickets[3].sequenceNumber = 3
    /\ tickets[1].id = tickets[3].id

====
